---------------------------- MODULE Spec2Model ----------------------------
(***************************************************************************)
(* Model of the two-stage tracklet tracker                                 *)
(* (vista/algorithms/trackers/tracklet_tracker.py).                        *)
(*                                                                         *)
(* A position is the pair <<column, row>> (np.array([column, row])).       *)
(* Velocities and predicted positions are rationals: a vector is the       *)
(* record [def, x, y, d] that stands for (x/d, y/d), def = FALSE is None.  *)
(* A norm is the record [n2, d] that stands for sqrt(n2)/d; comparisons of *)
(* a norm with a radius are exact (on the squares), and the value stored   *)
(* in a cost matrix is the norm in units of 1/Scale, rounded down.         *)
(***************************************************************************)
EXTENDS Integers, Sequences, FiniteSets, TLC

VARIABLES
    detectors,            \* the input: a sequence of detectors (parallel arrays)
    config,               \* the configuration dictionary
    pc,                   \* position in run_tracklet_tracker
    detections_by_frame,  \* frame -> sequence of detections (in input order)
    frames,               \* sorted keys of detections_by_frame
    fidx,                 \* index in frames of the next frame to process
    active_tracklets,
    finished_tracklets,
    next_tracklet_id,
    closed_tracklets,     \* history: every tracklet closed so far, with its fate
    frame_log,            \* history: what each processed frame did
    link_cost_matrix,
    linked_tracklets,
    used_tracklets,
    link_log,             \* history: the links in the order they were made
    cidx,                 \* index in linked_tracklets of the next chain to assemble
    vista_tracks,
    track_calls,          \* history: the keyword arguments of each Track(...) call
    result,               \* what run_tracklet_tracker returned or raised
    first_run,            \* history: what an earlier call on the same input did
    tracklet,             \* a Tracklet object whose methods are called one by one
    call                  \* the last method call on it, with what it returned

vars == <<detectors, config, pc, detections_by_frame, frames, fidx,
          active_tracklets, finished_tracklets, next_tracklet_id,
          closed_tracklets, frame_log, link_cost_matrix, linked_tracklets,
          used_tracklets, link_log, cidx, vista_tracks, track_calls, result,
          first_run, tracklet, call>>

---------------------------------------------------------------------------
(* Bounds of the model *)

\* largest number of detections in an input of the grid family
MaxDets == 3
\* largest number of detections of a single detector in the grid family
MaxPerDetector == 2
\* frames of the grid family are 1..MaxFrame
MaxFrame == 5
\* columns of the grid family are 0..MaxCol
MaxCol == 1
\* rows of the grid family are 0..MaxRow
MaxRow == 1
\* a stored cost is a distance in units of 1/Scale
Scale == 100

\* largest number of moves of tracklet B in the scenario family
MaxSteps == 2

\* largest number of points of the tracklet whose methods are called
MaxPoints == 4
\* a method is called with a frame at most MaxAhead frames after the last one
MaxAhead == 1
\* max_velocity_change is 1..MaxChange in the calls of check_velocity_consistency
MaxChange == 1

\* in the two-lane family a tail starts 0..MaxOff pixels past the place its
\* head is heading for
MaxOff == 2

(* Constants of the scenarios (spec.md, Scenarios C and D) *)

\* the frame at which tracklet A ends
ScenarioEnd == 10
\* both coordinates of the last point of A
ScenarioPos == 100
\* the frames from the end of A to the start of B in Scenario C
ScenarioGap == 4
\* the frames from the end of A to the start of B in Scenario D
ScenarioFar == 1000

(* Program constants *)

\* "if frame_gap > 3" (Stage 1 recency bound)
RecencyBound == 3
\* "n = min(3, len(self.positions))" (velocity window)
VelocityWindow == 3

---------------------------------------------------------------------------
(* Arithmetic *)

Min2(a, b) == IF a <= b THEN a ELSE b

RECURSIVE SqrtSearch(_, _, _)
SqrtSearch(n, lo, hi) ==
    IF lo >= hi THEN lo
    ELSE LET mid == (lo + hi + 1) \div 2
         IN  IF mid * mid <= n THEN SqrtSearch(n, mid, hi)
             ELSE SqrtSearch(n, lo, mid - 1)

\* floor of the square root of n >= 0
ISqrt(n) == SqrtSearch(n, 0, Min2(n, 46340))

RECURSIVE SumSeq(_)
SumSeq(s) == IF s = <<>> THEN 0 ELSE Head(s) + SumSeq(Tail(s))

\* the vector None
None == [def |-> FALSE, x |-> 0, y |-> 0, d |-> 1]

\* the integer position p as a vector
Vec(p) == [def |-> TRUE, x |-> p[1], y |-> p[2], d |-> 1]

\* np.zeros(2)
Zeros == [def |-> TRUE, x |-> 0, y |-> 0, d |-> 1]

\* a - b for two defined vectors
VecSub(a, b) ==
    [def |-> TRUE, x |-> a.x * b.d - b.x * a.d, y |-> a.y * b.d - b.y * a.d,
     d |-> a.d * b.d]

\* a + b * k for two defined vectors and an integer k
VecAddMul(a, b, k) ==
    [def |-> TRUE, x |-> a.x * b.d + b.x * k * a.d,
     y |-> a.y * b.d + b.y * k * a.d, d |-> a.d * b.d]

\* a / k for a defined vector and an integer k # 0
VecDiv(a, k) ==
    IF k > 0 THEN [def |-> TRUE, x |-> a.x, y |-> a.y, d |-> a.d * k]
    ELSE [def |-> TRUE, x |-> -a.x, y |-> -a.y, d |-> a.d * (-k)]

\* np.linalg.norm(v)
Norm(v) == [n2 |-> v.x * v.x + v.y * v.y, d |-> v.d]

\* norm < r, for an integer r
NormLt(nm, r) == r > 0 /\ nm.n2 < r * r * nm.d * nm.d

\* norm > r, for an integer r
NormGt(nm, r) == r < 0 \/ nm.n2 > r * r * nm.d * nm.d

\* the norm in units of 1/Scale, rounded down
Fixed(nm) == ISqrt((nm.n2 * Scale * Scale) \div (nm.d * nm.d))

\* the same rational vector
VecEq(a, b) ==
    /\ a.def = b.def
    /\ a.def => (a.x * b.d = b.x * a.d /\ a.y * b.d = b.y * a.d)

---------------------------------------------------------------------------
(* class Tracklet *)

Last(s) == s[Len(s)]

\* Tracklet.__init__ ; src is the input detection each point was copied from
Tracklet(det, frame, tracklet_id) ==
    [id |-> tracklet_id, positions |-> <<det.pos>>, frames |-> <<frame>>,
     velocity |-> None, src |-> <<det.key>>]

\* the velocity fitted over all the points instead of the last three
FitVelocityWhole(positions, tframes) ==
    IF Len(positions) >= 2
    THEN LET dt_total == Last(tframes) - tframes[1]
         IN  IF dt_total > 0
             THEN [def |-> TRUE, x |-> Last(positions)[1] - positions[1][1],
                   y |-> Last(positions)[2] - positions[1][2], d |-> dt_total]
             ELSE [def |-> TRUE, x |-> 0, y |-> 0, d |-> 1]
    ELSE [def |-> FALSE, x |-> 0, y |-> 0, d |-> 1]

\* the velocity estimate add_detection computes from the lists after the append
FitVelocity(positions, tframes) ==
    IF Len(positions) >= 2
    THEN LET n == Min2(VelocityWindow, Len(positions))
             first == Len(positions) - n + 1
             dt_total == Last(tframes) - tframes[first]
         IN  IF n >= 2
             THEN IF dt_total > 0
                  THEN VecDiv(VecSub(Vec(Last(positions)), Vec(positions[first])),
                              dt_total)
                  ELSE Zeros
             ELSE Zeros
    ELSE None

\* the positions stored without a copy, all of them views of one buffer that
\* holds the latest detection
add_detection_shared(t, det, frame) ==
    LET positions == [k \in 1..(Len(t.positions) + 1) |-> det.pos]
        tframes == Append(t.frames, frame)
        vel == FitVelocity(positions, tframes)
    IN  [t EXCEPT !.positions = positions, !.frames = tframes,
                  !.src = Append(t.src, det.key),
                  !.velocity = IF Len(positions) >= 2 THEN vel ELSE t.velocity]

\* Tracklet.add_detection
add_detection(t, det, frame) ==
    LET positions == Append(t.positions, det.pos)
        tframes == Append(t.frames, frame)
        vel == FitVelocity(positions, tframes)
    IN  [t EXCEPT !.positions = positions, !.frames = tframes,
                  !.src = Append(t.src, det.key),
                  !.velocity = IF Len(positions) >= 2 THEN vel ELSE t.velocity]

\* Tracklet.predict_position
predict_position(t, target_frame) ==
    IF ~t.velocity.def \/ Len(t.positions) = 0 THEN None
    ELSE VecAddMul(Vec(Last(t.positions)), t.velocity,
                   target_frame - Last(t.frames))

\* a velocity change equal to the maximum is accepted
check_velocity_consistency_le(t, pos, frame, max_velocity_change) ==
    IF Len(t.positions) < 2 THEN TRUE
    ELSE LET dt == frame - Last(t.frames)
         IN  IF dt = 0 THEN FALSE
             ELSE LET new_velocity == VecDiv(VecSub(Vec(pos), Vec(Last(t.positions))), dt)
                      velocity_change == Norm(VecSub(new_velocity, t.velocity))
                  IN  ~NormGt(velocity_change, max_velocity_change)

\* Tracklet.check_velocity_consistency
check_velocity_consistency(t, pos, frame, max_velocity_change) ==
    IF Len(t.positions) < 2 THEN TRUE
    ELSE LET dt == frame - Last(t.frames)
         IN  IF dt = 0 THEN FALSE
             ELSE LET new_velocity == VecDiv(VecSub(Vec(pos), Vec(Last(t.positions))), dt)
                      velocity_change == Norm(VecSub(new_velocity, t.velocity))
                  IN  NormLt(velocity_change, max_velocity_change)

\* the distance taken from the last position, whatever the velocity
distance_to_last(t, pos, frame) == Norm(VecSub(Vec(pos), Vec(Last(t.positions))))

\* Tracklet.distance_to
distance_to(t, pos, frame) ==
    LET pred == predict_position(t, frame)
    IN  IF ~pred.def THEN Norm(VecSub(Vec(pos), Vec(Last(t.positions))))
        ELSE Norm(VecSub(Vec(pos), pred))

\* Tracklet.extrapolate_forward
extrapolate_forward(t, frames_ahead) ==
    IF ~t.velocity.def THEN None
    ELSE predict_position(t, Last(t.frames) + frames_ahead)

\* Tracklet.get_start_velocity
get_start_velocity(t) == IF t.velocity.def THEN t.velocity ELSE Zeros

\* Tracklet.get_end_velocity
get_end_velocity(t) == IF t.velocity.def THEN t.velocity ELSE Zeros

---------------------------------------------------------------------------
(* run_tracklet_tracker: collecting the detections (lines 140-162) *)

\* the detections in the order the two loops visit them; key names the
\* detection instance (detector index, array index)
RECURSIVE FlatDetections(_, _)
FlatDetections(dets, k) ==
    IF k > Len(dets) THEN <<>>
    ELSE [i \in 1..Len(dets[k].frames) |->
             [frame |-> dets[k].frames[i],
              pos |-> <<dets[k].columns[i], dets[k].rows[i]>>,
              key |-> <<k, i>>]]
         \o FlatDetections(dets, k + 1)

\* the detections appended to detections_by_frame[f], in order
FrameList(flat, f) ==
    LET sel == SelectSeq(flat, LAMBDA e : e.frame = f)
    IN  [i \in 1..Len(sel) |-> [pos |-> sel[i].pos, key |-> sel[i].key]]

\* detections_by_frame after the loops
DetectionsByFrame(flat) ==
    [f \in {flat[i].frame : i \in 1..Len(flat)} |-> FrameList(flat, f)]

\* detections_by_frame.keys(): the frames in the order of their first insertion
RECURSIVE Keys(_)
Keys(flat) ==
    IF flat = <<>> THEN <<>>
    ELSE LET rest == Keys(SubSeq(flat, 1, Len(flat) - 1))
             f == flat[Len(flat)].frame
         IN  IF \E i \in 1..Len(rest) : rest[i] = f THEN rest ELSE Append(rest, f)

\* s with x inserted before the first element greater than x
RECURSIVE Insert(_, _)
Insert(s, x) ==
    IF s = <<>> THEN <<x>>
    ELSE IF x < Head(s) THEN <<x>> \o s
    ELSE <<Head(s)>> \o Insert(Tail(s), x)

\* the keys left in the order of their insertion
unsorted(keys) == keys

\* sorted(keys), ascending
RECURSIVE sorted(_)
sorted(keys) ==
    IF keys = <<>> THEN <<>>
    ELSE Insert(sorted(SubSeq(keys, 1, Len(keys) - 1)), keys[Len(keys)])

\* a Tracker made without the configured name
TrackerUnnamed(name, tracks) == [kind |-> "Tracker", name |-> "", tracks |-> tracks]

\* Tracker(name=..., tracks=...)
Tracker(name, tracks) == [kind |-> "Tracker", name |-> name, tracks |-> tracks]

\* an exception leaving run_tracklet_tracker
Raised(exc) == [kind |-> exc, name |-> "", tracks |-> <<>>]

NoResult == [kind |-> "none", name |-> "", tracks |-> <<>>]

Collect ==
    /\ pc = "collect"
    /\ LET flat == FlatDetections(detectors, 1)
           dbf == DetectionsByFrame(flat)
       IN  /\ detections_by_frame' = dbf
           /\ IF DOMAIN dbf = {}
              THEN /\ result' = Tracker(config.tracker_name, <<>>)
                   /\ pc' = "done"
                   /\ frames' = <<>>
              ELSE /\ frames' = sorted(Keys(flat))
                   /\ pc' = "stage1"
                   /\ result' = result
    /\ UNCHANGED <<tracklet, call, first_run, detectors, config, fidx, active_tracklets, finished_tracklets,
                   next_tracklet_id, closed_tracklets, frame_log,
                   link_cost_matrix, linked_tracklets, used_tracklets, link_log,
                   cidx, vista_tracks, track_calls>>

---------------------------------------------------------------------------
(* Stage 1 (lines 167-239) *)

\* a cost matrix filled with zeros
SentinelZero == config.initial_search_radius * 0

\* lines 176-177: the value the cost matrix is filled with, in units of 1/Scale
Sentinel == config.initial_search_radius * 2 * Scale

\* the recency bound taken one frame too wide
StaleLater(frame_gap) == frame_gap > RecencyBound + 1

\* line 183: the last point of the tracklet is too old
Stale(frame_gap) == frame_gap > RecencyBound

\* the pair passes the three gates of lines 182-193
Eligible(t, det, frame) ==
    /\ ~Stale(frame - Last(t.frames))
    /\ NormLt(distance_to(t, det.pos, frame), config.initial_search_radius)
    /\ check_velocity_consistency(t, det.pos, frame, config.max_velocity_change)

\* the entry cost_matrix[i, j] (lines 176-195)
CostEntry(t, det, frame) ==
    LET sentinel == Sentinel
        frame_gap == frame - Last(t.frames)
        dist == distance_to(t, det.pos, frame)
    IN  IF Stale(frame_gap) THEN sentinel
        ELSE IF ~NormLt(dist, config.initial_search_radius) THEN sentinel
        ELSE IF ~check_velocity_consistency(t, det.pos, frame,
                                            config.max_velocity_change)
             THEN sentinel
        ELSE Fixed(dist)

CostMatrix(active, detections, frame) ==
    [i \in 1..Len(active) |->
        [j \in 1..Len(detections) |-> CostEntry(active[i], detections[j], frame)]]

\* the one-to-one assignments of min(n, m) pairs between 1..n and 1..m
FullAssignments(n, m) ==
    IF n <= m
    THEN {{<<i, f[i]>> : i \in 1..n} :
             f \in {g \in [1..n -> 1..m] :
                       \A a, b \in 1..n : a # b => g[a] # g[b]}}
    ELSE {{<<f[j], j>> : j \in 1..m} :
             f \in {g \in [1..m -> 1..n] :
                       \A a, b \in 1..m : a # b => g[a] # g[b]}}

RECURSIVE SumCost(_, _)
SumCost(cost, pairs) ==
    IF pairs = {} THEN 0
    ELSE LET p == CHOOSE q \in pairs : TRUE
         IN  cost[p[1]][p[2]] + SumCost(cost, pairs \ {p})

\* scipy.optimize.linear_sum_assignment(cost_matrix): the assignments of
\* minimum total cost; which one of them is returned is the solver's choice
linear_sum_assignment(cost, n, m) ==
    LET all == FullAssignments(n, m)
    IN  {a \in all : \A b \in all : SumCost(cost, a) <= SumCost(cost, b)}

\* line 198 for the k-th frame: a solver that is deterministic returns, for
\* the cost matrix it was given at this frame by an earlier call, the same
\* assignment again
Solve(cost, n, m, k) ==
    IF first_run.done /\ k <= Len(first_run.frame_log)
       /\ first_run.frame_log[k].cost = cost
    THEN {first_run.frame_log[k].assignment}
    ELSE linear_sum_assignment(cost, n, m)

\* the pairs of the assignment that line 205 accepts
Accepted(cost, assignment) ==
    {p \in assignment : cost[p[1]][p[2]] < config.initial_search_radius * Scale}

\* the active tracklets after the add_detection calls of lines 204-208
Extended(active, detections, frame, acc) ==
    [i \in 1..Len(active) |->
        IF \E p \in acc : p[1] = i
        THEN LET p == CHOOSE q \in acc : q[1] = i
             IN  add_detection(active[i], detections[p[2]], frame)
        ELSE active[i]]

\* a closed tracklet is kept only when it is longer than the minimum
KeepLonger(t) == Len(t.positions) > config.min_tracklet_length

\* line 215: a closed tracklet is kept
Keep(t) == Len(t.positions) >= config.min_tracklet_length

\* no detection is recorded as assigned
AssignedNone(acc) == {}

\* assigned_detections after the loop of lines 204-208
AssignedDetections(acc) == {p[2] : p \in acc}

\* every detection of the frame spawns a new tracklet
UnassignedAll(j, assigned_detections) == TRUE

\* line 224: detection j spawns a new tracklet
Unassigned(j, assigned_detections) == j \notin assigned_detections

\* one tracklet that takes all the detections of the frame
RECURSIVE Merged(_, _, _, _)
Merged(detections, js, frame, first_id) ==
    IF Len(js) = 0 THEN <<>>
    ELSE IF Len(js) = 1 THEN <<Tracklet(detections[js[1]], frame, first_id)>>
    ELSE LET rest == Merged(detections, SubSeq(js, 1, Len(js) - 1), frame, first_id)
         IN  <<add_detection(rest[1], detections[js[Len(js)]], frame)>>

\* the new tracklets of lines 223-227 or 231-234, with consecutive ids
Spawned(detections, js, frame, first_id) ==
    [k \in 1..Len(js) |-> Tracklet(detections[js[k]], frame, first_id + k - 1)]

\* a closed tracklet is left in the active list
RemovedNever(i, assigned_tracklets) == FALSE

\* lines 213-220: tracklet i is closed and removed from the active list
Removed(i, assigned_tracklets) == i \notin assigned_tracklets

\* the indices 1..n, ascending (enumerate)
Range(n) == [i \in 1..n |-> i]

ProcessFrame ==
    /\ pc = "stage1"
    /\ fidx <= Len(frames)
    /\ LET frame == frames[fidx]
           detections == detections_by_frame[frame]
           n == Len(active_tracklets)
           m == Len(detections)
           matching == n > 0 /\ m > 0
           cost == CostMatrix(active_tracklets, detections, frame)
       IN  \E assignment \in (IF matching THEN Solve(cost, n, m, fidx) ELSE {{}}) :
             LET acc == Accepted(cost, assignment)
                 assigned_detections == AssignedDetections(acc)
                 assigned_tracklets == {p[1] : p \in acc}
                 extended == Extended(active_tracklets, detections, frame, acc)
                 closing == IF matching
                            THEN SelectSeq(Range(n),
                                           LAMBDA i : i \notin assigned_tracklets)
                            ELSE <<>>
                 staying == SelectSeq(Range(n),
                                      LAMBDA i : ~Removed(i, assigned_tracklets))
                 keeping == SelectSeq(closing, LAMBDA i : Keep(extended[i]))
                 js == IF matching
                       THEN SelectSeq(Range(m),
                                      LAMBDA j : Unassigned(j, assigned_detections))
                       ELSE [j \in 1..m |-> j]
                 new == Spawned(detections, js, frame, next_tracklet_id)
             IN  /\ active_tracklets' =
                        IF matching
                        THEN [k \in 1..Len(staying) |-> extended[staying[k]]] \o new
                        ELSE active_tracklets \o new
                 /\ finished_tracklets' =
                        finished_tracklets
                        \o [k \in 1..Len(keeping) |-> extended[keeping[k]]]
                 /\ closed_tracklets' =
                        closed_tracklets
                        \o [k \in 1..Len(closing) |->
                               [t |-> extended[closing[k]],
                                kept |-> Keep(extended[closing[k]]),
                                final |-> FALSE]]
                 /\ next_tracklet_id' = next_tracklet_id + Len(new)
                 /\ frame_log' =
                        Append(frame_log,
                               [frame |-> frame, matching |-> matching,
                                cost |-> cost, assignment |-> assignment,
                                before |-> [i \in 1..n |-> active_tracklets[i].id],
                                appended |->
                                    {<<active_tracklets[p[1]].id, detections[p[2]].key>> :
                                        p \in acc},
                                gated |->
                                    {<<active_tracklets[i].id, detections[j].key>> :
                                        <<i, j>> \in
                                            {q \in (1..n) \X (1..m) :
                                                Eligible(active_tracklets[q[1]],
                                                         detections[q[2]], frame)}},
                                spawned |-> [k \in 1..Len(new) |-> new[k].id]])
    /\ fidx' = fidx + 1
    /\ UNCHANGED <<tracklet, call, first_run, detectors, config, pc, detections_by_frame, frames,
                   link_cost_matrix, linked_tracklets, used_tracklets, link_log,
                   cidx, vista_tracks, track_calls, result>>

\* lines 236-245
FinishRemaining ==
    /\ pc = "stage1"
    /\ fidx > Len(frames)
    /\ LET n == Len(active_tracklets)
           keeping == SelectSeq(Range(n), LAMBDA i : Keep(active_tracklets[i]))
           fin == finished_tracklets
                  \o [k \in 1..Len(keeping) |-> active_tracklets[keeping[k]]]
       IN  /\ finished_tracklets' = fin
           /\ closed_tracklets' =
                  closed_tracklets
                  \o [i \in 1..n |->
                         [t |-> active_tracklets[i], kept |-> Keep(active_tracklets[i]),
                          final |-> TRUE]]
           /\ IF Len(fin) = 0
              THEN /\ result' = Tracker(config.tracker_name, <<>>)
                   /\ pc' = "done"
              ELSE /\ result' = result
                   /\ pc' = "build"
    /\ UNCHANGED <<tracklet, call, first_run, detectors, config, detections_by_frame, frames, fidx,
                   active_tracklets, next_tracklet_id, frame_log,
                   link_cost_matrix, linked_tracklets, used_tracklets, link_log,
                   cidx, vista_tracks, track_calls>>

---------------------------------------------------------------------------
(* Stage 2 (lines 247-329) *)

\* np.inf and a finite cost
Inf == [inf |-> TRUE, c |-> 0]

Finite(c) == [inf |-> FALSE, c |-> c]

\* a <= b for two costs
CostLe(a, b) == ~a.inf /\ (b.inf \/ a.c <= b.c)

\* a < b for two costs
CostLt(a, b) == ~a.inf /\ (b.inf \/ a.c < b.c)

\* the order of the two tracklets in time is not looked at
NotAfterNever(tracklet_i, tracklet_j) == FALSE

\* line 257: tracklet_j does not start after the end of tracklet_i
NotAfter(tracklet_i, tracklet_j) == tracklet_j.frames[1] <= Last(tracklet_i.frames)

\* the gap is too long already when it equals the maximum
GapAtLeast(frame_gap) == frame_gap >= config.max_linking_gap

\* line 262: the gap is too long to link
GapTooLong(frame_gap) == frame_gap > config.max_linking_gap

\* a gate that lets every position error through
TooFarNever(position_error) == FALSE

\* line 273: the extrapolation misses the start of the next tracklet
TooFar(position_error) == NormGt(position_error, config.linking_search_radius)

\* the entry link_cost_matrix[i, j] (lines 253-284)
LinkCost(fin, i, j) ==
    LET tracklet_i == fin[i]
        tracklet_j == fin[j]
        frame_gap == tracklet_j.frames[1] - Last(tracklet_i.frames)
        pred_pos == extrapolate_forward(tracklet_i, frame_gap)
        position_error == Norm(VecSub(pred_pos, Vec(tracklet_j.positions[1])))
        velocity_error == Norm(VecSub(get_end_velocity(tracklet_i),
                                      get_start_velocity(tracklet_j)))
    IN  IF i = j THEN Inf
        ELSE IF NotAfter(tracklet_i, tracklet_j) THEN Inf
        ELSE IF GapTooLong(frame_gap) THEN Inf
        ELSE IF ~pred_pos.def THEN Inf
        ELSE IF TooFar(position_error) THEN Inf
        ELSE Finite(Fixed(position_error)
                    + config.smoothness_weight * Fixed(velocity_error))

BuildLinkCosts ==
    /\ pc = "build"
    /\ link_cost_matrix' =
           [i \in 1..Len(finished_tracklets) |->
               [j \in 1..Len(finished_tracklets) |-> LinkCost(finished_tracklets, i, j)]]
    /\ linked_tracklets' = <<>>
    /\ used_tracklets' = {}
    /\ pc' = "link"
    /\ UNCHANGED <<tracklet, call, first_run, detectors, config, detections_by_frame, frames, fidx,
                   active_tracklets, finished_tracklets, next_tracklet_id,
                   closed_tracklets, frame_log, link_log, cidx, vista_tracks,
                   track_calls, result>>

\* the scan of lines 294-305 from entry k (row-major) on, given the best so far
RECURSIVE Scan(_, _, _, _, _)
Scan(cost, n, used, k, best) ==
    IF k > n * n THEN best
    ELSE LET i == ((k - 1) \div n) + 1
             j == ((k - 1) % n) + 1
         IN  IF i \notin used /\ j \notin used /\ CostLt(cost[i][j], best.min_cost)
             THEN Scan(cost, n, used, k + 1,
                       [min_cost |-> cost[i][j], best_i |-> i, best_j |-> j])
             ELSE Scan(cost, n, used, k + 1, best)

\* min_cost, best_i, best_j after the scan; best_i = 0 stands for -1
BestLink(cost, n, used) ==
    Scan(cost, n, used, 1, [min_cost |-> Inf, best_i |-> 0, best_j |-> 0])

\* lines 312-321: best_j joins the first chain that ends in best_i, or a new chain
Link(chains, best_i, best_j) ==
    IF \E c \in 1..Len(chains) : Last(chains[c]) = best_i
    THEN LET c == CHOOSE a \in 1..Len(chains) :
                      /\ Last(chains[a]) = best_i
                      /\ \A b \in 1..(a - 1) : Last(chains[b]) # best_i
         IN  [chains EXCEPT ![c] = Append(chains[c], best_j)]
    ELSE Append(chains, <<best_i, best_j>>)

\* only the target of the link is taken out of the search
ConsumedTarget(best_i, best_j) == {best_j}

\* only the source of the link is taken out of the search
ConsumedSource(best_i, best_j) == {best_i}

\* lines 323-324: the tracklets a link takes out of the search
Consumed(best_i, best_j) == {best_i, best_j}

\* one iteration of the loop of lines 292-324
LinkStep ==
    /\ pc = "link"
    /\ LET n_tracklets == Len(finished_tracklets)
           best == BestLink(link_cost_matrix, n_tracklets, used_tracklets)
       IN  IF best.best_i = 0 \/ best.min_cost.inf
           THEN /\ pc' = "unlinked"
                /\ UNCHANGED <<linked_tracklets, used_tracklets, link_log>>
           ELSE /\ linked_tracklets' = Link(linked_tracklets, best.best_i, best.best_j)
                /\ used_tracklets' = used_tracklets \cup Consumed(best.best_i, best.best_j)
                /\ link_log' = Append(link_log,
                                      [i |-> best.best_i, j |-> best.best_j,
                                       cost |-> best.min_cost.c])
                /\ pc' = pc
    /\ UNCHANGED <<tracklet, call, first_run, detectors, config, detections_by_frame, frames, fidx,
                   active_tracklets, finished_tracklets, next_tracklet_id,
                   closed_tracklets, frame_log, link_cost_matrix, cidx,
                   vista_tracks, track_calls, result>>

\* every tracklet becomes a chain of its own
UnlinkedAll(i, used) == TRUE

\* line 328: tracklet i becomes a chain of its own
Unlinked(i, used) == i \notin used

\* lines 326-329
AddUnlinked ==
    /\ pc = "unlinked"
    /\ LET rest == SelectSeq(Range(Len(finished_tracklets)),
                             LAMBDA i : Unlinked(i, used_tracklets))
       IN  linked_tracklets' = linked_tracklets \o [k \in 1..Len(rest) |-> <<rest[k]>>]
    /\ pc' = "assemble"
    /\ cidx' = 1
    /\ UNCHANGED <<tracklet, call, first_run, detectors, config, detections_by_frame, frames, fidx,
                   active_tracklets, finished_tracklets, next_tracklet_id,
                   closed_tracklets, frame_log, link_cost_matrix, used_tracklets,
                   link_log, vista_tracks, track_calls, result>>

---------------------------------------------------------------------------
(* Assembling the tracks (lines 334-378) *)

\* the points of the tracklets of a chain, concatenated in chain order
RECURSIVE Concat(_, _)
Concat(fin, chain) ==
    IF chain = <<>> THEN <<>>
    ELSE LET t == fin[Head(chain)]
         IN  [k \in 1..Len(t.frames) |->
                 [frame |-> t.frames[k], pos |-> t.positions[k], src |-> t.src[k]]]
             \o Concat(fin, Tail(chain))

\* s with point x inserted after the last point whose frame is not greater
RECURSIVE InsertPoint(_, _)
InsertPoint(s, x) ==
    IF s = <<>> THEN <<x>>
    ELSE IF x.frame < Head(s).frame THEN <<x>> \o s
    ELSE <<Head(s)>> \o InsertPoint(Tail(s), x)

\* points[np.argsort(frames)]
RECURSIVE SortByFrame(_)
SortByFrame(points) ==
    IF points = <<>> THEN <<>>
    ELSE InsertPoint(SortByFrame(SubSeq(points, 1, Len(points) - 1)),
                     points[Len(points)])

\* the keyword arguments with rows and columns taken from the wrong index
TrackArgsSwapped(points, number) ==
    LET sorted_points == SortByFrame(points)
    IN  [name |-> <<"Track", number>>,
         frames |-> [k \in 1..Len(points) |-> sorted_points[k].frame],
         rows |-> [k \in 1..Len(points) |-> sorted_points[k].pos[1]],
         columns |-> [k \in 1..Len(points) |-> sorted_points[k].pos[2]],
         color |-> "g", marker |-> "o", line_width |-> 2, marker_size |-> 10,
         visible |-> TRUE,
         src |-> [k \in 1..Len(points) |-> sorted_points[k].src]]

\* the keyword arguments of the Track(...) call of lines 359-369;
\* src is the input detection each point was copied from
TrackArgs(points, number) ==
    LET sorted_points == SortByFrame(points)
    IN  [name |-> <<"Track", number>>,
         frames |-> [k \in 1..Len(points) |-> sorted_points[k].frame],
         rows |-> [k \in 1..Len(points) |-> sorted_points[k].pos[2]],
         columns |-> [k \in 1..Len(points) |-> sorted_points[k].pos[1]],
         color |-> "g", marker |-> "o", line_width |-> 2, marker_size |-> 10,
         visible |-> TRUE,
         src |-> [k \in 1..Len(points) |-> sorted_points[k].src]]

\* the fields without a default of the dataclass Track (track.py, lines 11-17)
TrackRequired == {"name", "frames", "rows", "columns", "sensor"}

\* Track.__init__ raises TypeError when a field without a default is not given;
\* src is no argument of the call
TrackInitRaises(kwargs) == ~(TrackRequired \subseteq (DOMAIN kwargs \ {"src"}))

\* line 347: the chain is too short to become a track
TooShort(points) == Len(points) < config.min_track_length

\* one iteration of the loop of lines 336-370
AssembleStep ==
    /\ pc = "assemble"
    /\ cidx <= Len(linked_tracklets)
    /\ LET points == Concat(finished_tracklets, linked_tracklets[cidx])
           kwargs == TrackArgs(points, Len(vista_tracks) + 1)
       IN  IF TooShort(points)
           THEN /\ cidx' = cidx + 1
                /\ UNCHANGED <<pc, vista_tracks, track_calls, result>>
           ELSE /\ track_calls' = Append(track_calls, kwargs)
                /\ IF TrackInitRaises(kwargs)
                   THEN /\ result' = Raised("TypeError")
                        /\ pc' = "done"
                        /\ UNCHANGED <<cidx, vista_tracks>>
                   ELSE /\ vista_tracks' = Append(vista_tracks, kwargs)
                        /\ cidx' = cidx + 1
                        /\ UNCHANGED <<pc, result>>
    /\ UNCHANGED <<tracklet, call, first_run, detectors, config, detections_by_frame, frames, fidx,
                   active_tracklets, finished_tracklets, next_tracklet_id,
                   closed_tracklets, frame_log, link_cost_matrix,
                   linked_tracklets, used_tracklets, link_log>>

\* lines 372-378
Return ==
    /\ pc = "assemble"
    /\ cidx > Len(linked_tracklets)
    /\ result' = Tracker(config.tracker_name, vista_tracks)
    /\ pc' = "done"
    /\ UNCHANGED <<tracklet, call, first_run, detectors, config, detections_by_frame, frames, fidx,
                   active_tracklets, finished_tracklets, next_tracklet_id,
                   closed_tracklets, frame_log, link_cost_matrix,
                   linked_tracklets, used_tracklets, link_log, cidx,
                   vista_tracks, track_calls>>

---------------------------------------------------------------------------
(* Inputs *)

\* a detector holding the detections of s as parallel arrays
Detector(s) ==
    [frames |-> [i \in 1..Len(s) |-> s[i][1]],
     rows |-> [i \in 1..Len(s) |-> s[i][2]],
     columns |-> [i \in 1..Len(s) |-> s[i][3]]]

\* the lists of detections given as no detector, as one detector of at most
\* MaxPerDetector detections, or as two detectors, the first with one detection
Feeds(lists) ==
    {<<>>}
    \cup {<<Detector(s)>> : s \in {l \in lists : Len(l) <= MaxPerDetector}}
    \cup {<<Detector(SubSeq(s, 1, 1)), Detector(SubSeq(s, 2, Len(s)))>> :
             s \in {l \in lists : Len(l) >= 2}}

\* the detections (frame, row, column) of the grid family
GridDetections == (1..MaxFrame) \X (0..MaxRow) \X (0..MaxCol)

\* every list of at most MaxDets grid detections, in every order
GridLists == UNION {[1..n -> GridDetections] : n \in 0..MaxDets}

\* the two-by-two family: two detectors, each with two detections of one frame,
\* the first of frame 1 or 2, the second of another frame among 1, 2, MaxFrame
PairFeeds ==
    {<<Detector(<<<<fg[1], p[1], p[2]>>, <<fg[1], p[3], p[4]>>>>),
       Detector(<<<<fg[2], q[1], q[2]>>, <<fg[2], q[3], q[4]>>>>)>> :
        fg \in {x \in {1, 2} \X {1, 2, MaxFrame} : x[1] # x[2]},
        p \in (0..MaxRow) \X (0..MaxCol) \X (0..MaxRow) \X (0..MaxCol),
        q \in (0..MaxRow) \X (0..MaxCol) \X (0..MaxRow) \X (0..MaxCol)}

Config(r, dv, mtl, gap, lr, w, mt) ==
    [tracker_name |-> "Tracklet Tracker", initial_search_radius |-> r,
     max_velocity_change |-> dv, min_tracklet_length |-> mtl,
     max_linking_gap |-> gap, linking_search_radius |-> lr,
     smoothness_weight |-> w, min_track_length |-> mt]

\* the configurations of the grid family
GridConfigs ==
    {Config(2, 5, 1, 3, 2, 1, 1),
     Config(1, 1, 2, 1, 1, 0, 3),
     Config(0, 5, 1, 2, 0, 1, 2),
     Config(-1, 5, 2, 3, 2, 1, 5),
     Config(2, 5, 0, -1, 2, 1, 1)}

InitRest ==
    /\ pc = "collect"
    /\ detections_by_frame = <<>>
    /\ frames = <<>>
    /\ fidx = 1
    /\ active_tracklets = <<>>
    /\ finished_tracklets = <<>>
    /\ next_tracklet_id = 1
    /\ closed_tracklets = <<>>
    /\ frame_log = <<>>
    /\ link_cost_matrix = <<>>
    /\ linked_tracklets = <<>>
    /\ used_tracklets = {}
    /\ link_log = <<>>
    /\ cidx = 1
    /\ vista_tracks = <<>>
    /\ track_calls = <<>>
    /\ result = NoResult

\* no Tracklet object
NoTracklet == [id |-> 0, positions |-> <<>>, frames |-> <<>>, velocity |-> None, src |-> <<>>]

\* a method call: the method, its arguments, and the boolean, the vector or
\* the norm it returned
Call(op, pos, frame, arg, flag, vec, norm) ==
    [op |-> op, pos |-> pos, frame |-> frame, arg |-> arg, flag |-> flag,
     vec |-> vec, norm |-> norm]

NoCall == Call("none", <<0, 0>>, 0, 0, FALSE, None, Norm(Zeros))

\* no earlier call
NoRun ==
    [done |-> FALSE, result |-> NoResult, track_calls |-> <<>>, frame_log |-> <<>>,
     finished_tracklets |-> <<>>, linked_tracklets |-> <<>>]

Init ==
    /\ detectors \in Feeds(GridLists) \cup PairFeeds
    /\ config \in GridConfigs
    /\ InitRest
    /\ first_run = NoRun
    /\ tracklet = NoTracklet
    /\ call = NoCall

(* The scenario family: tracklet A ends at frame 10 at (100, 100) after moving
   one pixel per frame along one axis; tracklet B starts at (104, 100), four
   frames or a thousand frames later, and goes on for up to two more frames;
   a third tracklet may start four frames after B ends. *)

\* the detection (frame, row, column) at `along` on the axis of motion and
\* `across` on the other axis; axis 1 is the column axis
OnAxis(axis, frame, along, across) ==
    IF axis = 1 THEN <<frame, across, along>> ELSE <<frame, along, across>>

\* the last n points of A
ScenarioA(axis, n) ==
    [k \in 1..n |-> OnAxis(axis, ScenarioEnd - n + k, ScenarioPos - n + k, ScenarioPos)]

\* the moves (along, across) B may make from one frame to the next
ScenarioSteps == {<<1, 0>>, <<0, 0>>, <<2, 1>>}

\* B from its first point on, followed by the moves of steps
RECURSIVE ScenarioB(_, _, _, _, _)
ScenarioB(axis, frame, along, across, steps) ==
    <<OnAxis(axis, frame, along, across)>>
    \o (IF steps = <<>> THEN <<>>
        ELSE ScenarioB(axis, frame + 1, along + Head(steps)[1],
                       across + Head(steps)[2], Tail(steps)))

\* the single point of a third tracklet, ScenarioGap frames after the end of b
\* and `ahead` pixels further along, or nothing when ahead < 0
ScenarioThird(axis, b, ahead) ==
    IF ahead < 0 THEN <<>>
    ELSE LET last == b[Len(b)]
         IN  IF axis = 1
             THEN <<<<last[1] + ScenarioGap, last[2], last[3] + ahead>>>>
             ELSE <<<<last[1] + ScenarioGap, last[2] + ahead, last[3]>>>>

ScenarioFeeds ==
    {<<Detector(ScenarioA(axis, n)),
       Detector(LET b == ScenarioB(axis, ScenarioEnd + gap, ScenarioPos + ScenarioGap,
                                   ScenarioPos, steps)
                IN  b \o ScenarioThird(axis, b, ahead))>> :
        axis \in {1, 2}, n \in {2, 3}, gap \in {ScenarioGap, ScenarioFar},
        steps \in UNION {[1..l -> ScenarioSteps] : l \in 0..MaxSteps},
        ahead \in {-1, 0, ScenarioGap}}

\* the default configuration (lines 141-148) with some options varied
ScenarioConfigs ==
    {Config(10, 5, mtl, gap, lr, w, mt) :
        mtl \in {1, 3}, gap \in {3, 4, 10}, lr \in {0, 30}, w \in {0, 2},
        mt \in {1, 5}}

InitScenario ==
    /\ detectors \in ScenarioFeeds
    /\ config \in ScenarioConfigs
    /\ InitRest
    /\ first_run = NoRun
    /\ tracklet = NoTracklet
    /\ call = NoCall

\* the configurations of the two-call family
TwiceConfigs ==
    {Config(2, 5, 1, 3, 2, 1, 1),
     Config(1, 1, 2, 1, 1, 0, 3)}

InitTwice ==
    /\ detectors \in Feeds(GridLists) \cup PairFeeds
    /\ config \in TwiceConfigs
    /\ InitRest
    /\ first_run = NoRun
    /\ tracklet = NoTracklet
    /\ call = NoCall

\* the list of active tracklets outlives the call
KeptActive(left) == left

\* line 167: the list of active tracklets of a call starts empty
NewActive(left) == <<>>

\* a second call of run_tracklet_tracker with the same detectors and
\* configuration: every local of the function starts afresh (lines 151,
\* 167-169, 288-289, 334)
Rerun ==
    /\ pc = "done"
    /\ ~first_run.done
    /\ first_run' =
           [done |-> TRUE, result |-> result, track_calls |-> track_calls,
            frame_log |-> frame_log, finished_tracklets |-> finished_tracklets,
            linked_tracklets |-> linked_tracklets]
    /\ pc' = "collect"
    /\ detections_by_frame' = <<>>
    /\ frames' = <<>>
    /\ fidx' = 1
    /\ active_tracklets' = NewActive(active_tracklets)
    /\ finished_tracklets' = <<>>
    /\ next_tracklet_id' = 1
    /\ closed_tracklets' = <<>>
    /\ frame_log' = <<>>
    /\ link_cost_matrix' = <<>>
    /\ linked_tracklets' = <<>>
    /\ used_tracklets' = {}
    /\ link_log' = <<>>
    /\ cidx' = 1
    /\ vista_tracks' = <<>>
    /\ track_calls' = <<>>
    /\ result' = NoResult
    /\ UNCHANGED <<detectors, config, tracklet, call>>

(* The two-lane family: in each of two lanes, 20 rows apart, a head of two
   points ends at frame 10 at column 100, moving one pixel per frame, and a
   tail of one point starts 4 or 5 frames later, 0 to MaxOff pixels past the
   place the head is heading for. *)

LaneApart == 5 * ScenarioGap

\* the detections (frame, row, column) of lane l
Lane(l, late, off) ==
    LET row == ScenarioPos + (l - 1) * LaneApart
    IN  <<<<ScenarioEnd - 1, row, ScenarioPos - 1>>,
          <<ScenarioEnd, row, ScenarioPos>>,
          <<ScenarioEnd + ScenarioGap + late, row,
            ScenarioPos + ScenarioGap + late + off>>>>

\* one detector per lane, in either order
LinkFeeds ==
    {<<Detector(Lane(ls[1], late[1], off[1])), Detector(Lane(ls[2], late[2], off[2]))>> :
        ls \in {<<1, 2>>, <<2, 1>>},
        late \in {0, 1} \X {0, 1},
        off \in (0..MaxOff) \X (0..MaxOff)}

\* the default configuration with the linking options varied
LinkConfigs ==
    {Config(10, 5, 1, gap, lr, w, mt) :
        gap \in {0, ScenarioGap, ScenarioGap + 1}, lr \in {0, 1, 30}, w \in {0, 1},
        mt \in {1, 5}}

InitLinks ==
    /\ detectors \in LinkFeeds
    /\ config \in LinkConfigs
    /\ InitRest
    /\ first_run = NoRun
    /\ tracklet = NoTracklet
    /\ call = NoCall

---------------------------------------------------------------------------
(* The methods of a Tracklet, called one by one on one object *)

\* the positions the methods are called with
Positions == (0..MaxCol) \X (0..MaxRow)

\* Tracklet(pos, 1, 1)
InitTracklet ==
    /\ detectors = <<>>
    /\ config = Config(10, 5, 3, 10, 30, 1, 5)
    /\ InitRest
    /\ first_run = NoRun
    /\ \E pos \in Positions : tracklet = Tracklet([pos |-> pos, key |-> <<0, 1>>], 1, 1)
    /\ call = Call("__init__", tracklet.positions[1], 1, 1, FALSE, None, Norm(Zeros))

run_vars ==
    <<detectors, config, pc, detections_by_frame, frames, fidx, active_tracklets,
      finished_tracklets, next_tracklet_id, closed_tracklets, frame_log,
      link_cost_matrix, linked_tracklets, used_tracklets, link_log, cidx,
      vista_tracks, track_calls, result, first_run>>

\* tracklet.add_detection(pos, frame), with a frame not before the last one
AddDetection ==
    /\ Len(tracklet.positions) < MaxPoints
    /\ \E pos \in Positions, ahead \in 0..MaxAhead :
           LET frame == Last(tracklet.frames) + ahead
               key == <<0, Len(tracklet.positions) + 1>>
           IN  /\ tracklet' = add_detection(tracklet, [pos |-> pos, key |-> key], frame)
               /\ call' = Call("add_detection", pos, frame, 0, FALSE, None, Norm(Zeros))
    /\ UNCHANGED run_vars

\* tracklet.check_velocity_consistency(pos, frame, max_velocity_change)
CheckVelocityConsistency ==
    /\ \E pos \in Positions, ahead \in -1..MaxAhead, max_change \in 1..MaxChange :
           LET frame == Last(tracklet.frames) + ahead
           IN  call' = Call("check_velocity_consistency", pos, frame, max_change,
                            check_velocity_consistency(tracklet, pos, frame, max_change),
                            None, Norm(Zeros))
    /\ UNCHANGED <<tracklet, run_vars>>

\* tracklet.distance_to(pos, frame)
DistanceTo ==
    /\ \E pos \in Positions, ahead \in -1..MaxAhead :
           LET frame == Last(tracklet.frames) + ahead
           IN  call' = Call("distance_to", pos, frame, 0, FALSE, None,
                            distance_to(tracklet, pos, frame))
    /\ UNCHANGED <<tracklet, run_vars>>

\* tracklet.predict_position(target_frame)
PredictPosition ==
    /\ \E ahead \in -1..MaxAhead :
           LET target_frame == Last(tracklet.frames) + ahead
           IN  call' = Call("predict_position", <<0, 0>>, target_frame, 0, FALSE,
                            predict_position(tracklet, target_frame), Norm(Zeros))
    /\ UNCHANGED <<tracklet, run_vars>>

\* tracklet.extrapolate_forward(frames_ahead)
ExtrapolateForward ==
    /\ \E frames_ahead \in 0..MaxAhead :
           call' = Call("extrapolate_forward", <<0, 0>>, 0, frames_ahead, FALSE,
                        extrapolate_forward(tracklet, frames_ahead), Norm(Zeros))
    /\ UNCHANGED <<tracklet, run_vars>>

NextTracklet ==
    \/ AddDetection
    \/ CheckVelocityConsistency
    \/ DistanceTo
    \/ PredictPosition
    \/ ExtrapolateForward

SpecTracklet == InitTracklet /\ [][NextTracklet]_vars

---------------------------------------------------------------------------
Next ==
    \/ Collect
    \/ ProcessFrame
    \/ FinishRemaining
    \/ BuildLinkCosts
    \/ LinkStep
    \/ AddUnlinked
    \/ AssembleStep
    \/ Return

Spec == Init /\ [][Next]_vars

SpecScenario == InitScenario /\ [][Next]_vars

SpecLinks == InitLinks /\ [][Next]_vars

\* the function runs on without waiting: when the loop can take its next
\* iteration, it takes it
SpecLinksFair == InitLinks /\ [][Next]_vars /\ WF_vars(LinkStep)

NextTwice == Next \/ Rerun

SpecTwice == InitTwice /\ [][NextTwice]_vars

---------------------------------------------------------------------------
(* Vocabulary of the properties *)

\* the input detection instances: (detector index, array index)
InputKeys ==
    UNION {{<<k, i>> : i \in 1..Len(detectors[k].frames)} : k \in 1..Len(detectors)}

\* the frame, row and column of an input detection instance
FrameOf(key) == detectors[key[1]].frames[key[2]]

RowOf(key) == detectors[key[1]].rows[key[2]]

ColumnOf(key) == detectors[key[1]].columns[key[2]]

\* some input detection has this frame, row and column
IsInput(f, row, column) ==
    \E key \in InputKeys :
        FrameOf(key) = f /\ RowOf(key) = row /\ ColumnOf(key) = column

\* every tracklet made so far: the closed ones, and the active ones while
\* Stage 1 runs
Tracklets ==
    [k \in 1..Len(closed_tracklets) |-> closed_tracklets[k].t]
    \o (IF pc = "stage1" THEN active_tracklets ELSE <<>>)

\* the number of points, over the tracklets of ts, copied from the instance key
RECURSIVE Uses(_, _)
Uses(ts, key) ==
    IF ts = <<>> THEN 0
    ELSE Cardinality({k \in 1..Len(Head(ts).src) : Head(ts).src[k] = key})
         + Uses(Tail(ts), key)

\* the frames processed so far
Processed == {frames[k] : k \in 1..(fidx - 1)}

\* the chains long enough to become tracks, and the point arrays built for them
SurvivingChains ==
    SelectSeq(linked_tracklets,
              LAMBDA chain : ~TooShort(Concat(finished_tracklets, chain)))

TrackPoints ==
    [c \in 1..Len(SurvivingChains) |->
        TrackArgs(Concat(finished_tracklets, SurvivingChains[c]), c)]

\* the number of places, over the chains, that hold tracklet i
RECURSIVE Places(_, _)
Places(chains, i) ==
    IF chains = <<>> THEN 0
    ELSE Cardinality({k \in 1..Len(Head(chains)) : Head(chains)[k] = i})
         + Places(Tail(chains), i)

\* the linking stage is over
Linked == pc \in {"assemble", "done"} /\ Len(linked_tracklets) > 0

---------------------------------------------------------------------------
(* Stage 1 properties *)

\* C1: every finalized tracklet has strictly increasing frames, whatever the
\* order in which the detections were listed.
C1_FinalizedFramesIncrease ==
    \A i \in 1..Len(finished_tracklets) :
        \A k \in 1..(Len(finished_tracklets[i].frames) - 1) :
            finished_tracklets[i].frames[k] < finished_tracklets[i].frames[k + 1]

\* a finalized tracklet of three points, made from detections listed in
\* descending frame order
C1_Witness ==
    /\ pc = "build"
    /\ \E i \in 1..Len(finished_tracklets) : Len(finished_tracklets[i].frames) = 3
    /\ Len(detectors) = 2
    /\ detectors[1].frames[1] > detectors[2].frames[1]
    /\ detectors[2].frames[1] > detectors[2].frames[2]

\* C2: in every processed frame the accepted assignment appends each detection
\* to at most one tracklet and at most one detection to each tracklet; every
\* detection of a processed frame is a point of exactly one tracklet, and no
\* detection of a later frame is a point of any.
C2_EachDetectionInOneTracklet ==
    /\ \A k \in 1..Len(frame_log) :
           \A p, q \in frame_log[k].appended :
               (p[1] = q[1] \/ p[2] = q[2]) => p = q
    /\ \A key \in InputKeys :
           Uses(Tracklets, key) = (IF FrameOf(key) \in Processed /\ pc # "collect"
                                   THEN 1 ELSE 0)

\* a frame in which two active tracklets were both extended, by two detections
C2_Witness ==
    /\ pc = "stage1"
    /\ \E k \in 1..Len(frame_log) : Cardinality(frame_log[k].appended) = 2

\* C3: a closed tracklet is finalized if and only if it has at least
\* min_tracklet_length points when it is closed;
\* the finalized set is exactly the closed tracklets that were long enough, in
\* the order of their closing, and every tracklet made is closed once.
C3_FinalizedIffLongEnough ==
    /\ \A i \in 1..Len(finished_tracklets) :
           Len(finished_tracklets[i].positions) >= config.min_tracklet_length
    /\ LET long == SelectSeq(closed_tracklets,
                             LAMBDA c : Len(c.t.positions) >= config.min_tracklet_length)
       IN  finished_tracklets = [k \in 1..Len(long) |-> long[k].t]
    /\ pc \notin {"collect", "stage1"} =>
           \A id \in 1..(next_tracklet_id - 1) :
               Cardinality({k \in 1..Len(closed_tracklets) :
                               closed_tracklets[k].t.id = id}) = 1

\* Stage 2 begins, under a minimum length of two, with a tracklet of two
\* points closed and kept before the end of the input, and one discarded
C3_Witness ==
    /\ pc = "build"
    /\ config.min_tracklet_length = 2
    /\ \E a, b \in 1..Len(closed_tracklets) :
           /\ ~closed_tracklets[a].final
           /\ closed_tracklets[a].kept
           /\ Len(closed_tracklets[a].t.positions) = 2
           /\ ~closed_tracklets[b].kept

\* C10: no tracklet holds two detections of the same frame; when a frame is
\* processed while no tracklet is active, each of its detections seeds a
\* single-point tracklet of its own.
C10_SameFrameNeverMerged ==
    /\ \A i \in 1..Len(Tracklets) :
           \A a, b \in 1..Len(Tracklets[i].src) :
               a # b => FrameOf(Tracklets[i].src[a]) # FrameOf(Tracklets[i].src[b])
    /\ (pc = "stage1" /\ fidx = 2) =>
           /\ Len(active_tracklets) = Len(detections_by_frame[frames[1]])
           /\ \A j \in 1..Len(active_tracklets) :
                  /\ active_tracklets[j].src = <<detections_by_frame[frames[1]][j].key>>
                  /\ active_tracklets[j].positions =
                         <<detections_by_frame[frames[1]][j].pos>>
                  /\ active_tracklets[j].frames = <<frames[1]>>

\* three detections at the same place in the first frame seeded three tracklets
C10_Witness ==
    /\ pc = "stage1"
    /\ fidx = 2
    /\ Len(active_tracklets) = 3
    /\ active_tracklets[1].positions = active_tracklets[2].positions
    /\ active_tracklets[2].positions = active_tracklets[3].positions

---------------------------------------------------------------------------
(* Stage 2 and assembly properties *)

\* C4: every point of a finalized tracklet, and every point handed to Track or
\* held by an output track, has the frame, row and column of one input
\* detection.
C4_PointsAreInputDetections ==
    /\ \A i \in 1..Len(finished_tracklets) :
           \A k \in 1..Len(finished_tracklets[i].frames) :
               IsInput(finished_tracklets[i].frames[k],
                       finished_tracklets[i].positions[k][2],
                       finished_tracklets[i].positions[k][1])
    /\ \A c \in 1..Len(TrackPoints) :
           \A k \in 1..Len(TrackPoints[c].frames) :
               IsInput(TrackPoints[c].frames[k], TrackPoints[c].rows[k],
                       TrackPoints[c].columns[k])
    /\ \A c \in 1..Len(track_calls) :
           /\ Len(track_calls[c].rows) = Len(track_calls[c].frames)
           /\ Len(track_calls[c].columns) = Len(track_calls[c].frames)
           /\ \A k \in 1..Len(track_calls[c].frames) :
                  IsInput(track_calls[c].frames[k], track_calls[c].rows[k],
                          track_calls[c].columns[k])
    /\ \A c \in 1..Len(result.tracks) :
           \A k \in 1..Len(result.tracks[c].frames) :
               IsInput(result.tracks[c].frames[k], result.tracks[c].rows[k],
                       result.tracks[c].columns[k])

\* Track was called with a point whose row and column, exchanged, are no input
\* detection
C4_Witness ==
    \E c \in 1..Len(track_calls) :
        \E k \in 1..Len(track_calls[c].frames) :
            /\ Len(track_calls[c].frames) >= 2
            /\ ~IsInput(track_calls[c].frames[k], track_calls[c].columns[k],
                        track_calls[c].rows[k])

\* C5: the point arrays built for the chains that become tracks hold at most
\* as many points as there are input detections, and no input detection
\* instance twice, neither in one array nor in two.
C5_TrackPointsWithinInput ==
    Linked =>
        /\ SumSeq([c \in 1..Len(TrackPoints) |-> Len(TrackPoints[c].frames)])
               <= Cardinality(InputKeys)
        /\ \A c, d \in 1..Len(TrackPoints) :
               \A a \in 1..Len(TrackPoints[c].src), b \in 1..Len(TrackPoints[d].src) :
                   (c # d \/ a # b) => TrackPoints[c].src[a] # TrackPoints[d].src[b]
        /\ \A c \in 1..Len(vista_tracks) : vista_tracks[c] = TrackPoints[c]

\* two chains pass the length filter and hold every one of three detections
C5_Witness ==
    /\ Linked
    /\ Len(TrackPoints) = 2
    /\ Cardinality(InputKeys) = 3
    /\ Len(TrackPoints[1].frames) + Len(TrackPoints[2].frames) = 3

\* C6: the chains partition the finalized tracklets: every finalized tracklet
\* is at exactly one place of exactly one chain, the chains hold nothing else,
\* and a tracklet that took part in no link is a chain of its own.
C6_ChainsPartitionTracklets ==
    Linked =>
        /\ \A i \in 1..Len(finished_tracklets) : Places(linked_tracklets, i) = 1
        /\ \A c \in 1..Len(linked_tracklets) :
               /\ Len(linked_tracklets[c]) >= 1
               /\ \A k \in 1..Len(linked_tracklets[c]) :
                      linked_tracklets[c][k] \in 1..Len(finished_tracklets)
        /\ \A i \in 1..Len(finished_tracklets) :
               (\A l \in 1..Len(link_log) : link_log[l].i # i /\ link_log[l].j # i)
                   => \E c \in 1..Len(linked_tracklets) : linked_tracklets[c] = <<i>>

\* the linking stage made a link, and ended with one chain of two tracklets
C6_Witness ==
    /\ Linked
    /\ Len(link_log) = 1
    /\ Len(finished_tracklets) = 2
    /\ linked_tracklets = <<<<link_log[1].i, link_log[1].j>>>>

---------------------------------------------------------------------------
(* The scenarios of the linking stage *)

\* finalized tracklet a ends as A does: at frame 10, at (100, 100), moving one
\* pixel per frame along the given axis
EndsAsA(a, axis) ==
    /\ Last(finished_tracklets[a].frames) = ScenarioEnd
    /\ Last(finished_tracklets[a].positions) = <<ScenarioPos, ScenarioPos>>
    /\ VecEq(finished_tracklets[a].velocity,
             IF axis = 1 THEN [def |-> TRUE, x |-> 1, y |-> 0, d |-> 1]
             ELSE [def |-> TRUE, x |-> 0, y |-> 1, d |-> 1])

\* finalized tracklet b starts as B does: gap frames after the end of A, four
\* pixels further along the axis
StartsAsB(b, axis, gap) ==
    /\ finished_tracklets[b].frames[1] = ScenarioEnd + gap
    /\ finished_tracklets[b].positions[1] =
           (IF axis = 1 THEN <<ScenarioPos + ScenarioGap, ScenarioPos>>
            ELSE <<ScenarioPos, ScenarioPos + ScenarioGap>>)

\* the finalized tracklets are exactly A and B, gap frames apart
TwoTracklets(a, b, gap) ==
    /\ Len(finished_tracklets) = 2
    /\ {a, b} = {1, 2}
    /\ \E axis \in {1, 2} : EndsAsA(a, axis) /\ StartsAsB(b, axis, gap)

\* C8 (Scenario C): when the finalized tracklets are exactly A and B, four
\* frames apart, and max_linking_gap >= 4, linking_search_radius >= 0 and
\* smoothness_weight >= 0, the linking stage ends with the one chain [A, B].
C8_ScenarioCLinked ==
    \A a, b \in 1..Len(finished_tracklets) :
        (/\ pc \in {"assemble", "done"}
         /\ TwoTracklets(a, b, ScenarioGap)
         /\ config.max_linking_gap >= ScenarioGap
         /\ config.linking_search_radius >= 0
         /\ config.smoothness_weight >= 0)
            => linked_tracklets = <<<<a, b>>>>

\* Scenario C with the smallest gap and radius it allows, and B moving in
\* another direction than A, so that the link has a positive cost
C8_Witness ==
    /\ pc = "assemble"
    /\ TwoTracklets(1, 2, ScenarioGap)
    /\ config.max_linking_gap = ScenarioGap
    /\ config.linking_search_radius = 0
    /\ config.smoothness_weight > 0
    /\ link_log = <<[i |-> 1, j |-> 2, cost |-> link_cost_matrix[1][2].c]>>
    /\ link_cost_matrix[1][2].c > 0

\* C9 (Scenario D), as claimed: when the finalized tracklets are exactly A and
\* B, a thousand frames apart, each long enough for a track, and
\* max_linking_gap = 10, they are in two chains and the Tracker returned holds
\* two tracks.
C9_ScenarioDTwoTracks ==
    \A a, b \in 1..Len(finished_tracklets) :
        (/\ pc = "done"
         /\ TwoTracklets(a, b, ScenarioFar)
         /\ config.max_linking_gap = 10
         /\ Len(finished_tracklets[a].positions) >= config.min_track_length
         /\ Len(finished_tracklets[b].positions) >= config.min_track_length)
            => /\ linked_tracklets = <<<<1>>, <<2>>>>
               /\ result.kind = "Tracker"
               /\ Len(result.tracks) = 2

\* the finite entries of the link cost matrix
FiniteLinks ==
    {p \in (1..Len(finished_tracklets)) \X (1..Len(finished_tracklets)) :
        ~link_cost_matrix[p[1]][p[2]].inf}

\* C7, as claimed: three finalized tracklets whose only finite link costs are
\* a -> b and b -> c end up in the single chain [a, b, c].
C7_ThreeTrackletsOneChain ==
    \A a, b, c \in 1..Len(finished_tracklets) :
        (/\ pc \in {"assemble", "done"}
         /\ Len(finished_tracklets) = 3
         /\ FiniteLinks = {<<a, b>>, <<b, c>>}
         /\ Cardinality({a, b, c}) = 3)
            => linked_tracklets = <<<<a, b, c>>>>

---------------------------------------------------------------------------
(* Errors and results *)

\* C11: when the input holds no detection (no detector, or detectors with
\* empty arrays) no frame is processed, and when no tracklet is finalized no
\* link is sought; in both cases the run returns a Tracker with the
\* configured name and no track, and raises nothing.
C11_EmptyInputEmptyTracker ==
    /\ (pc # "collect" /\ InputKeys = {}) =>
           /\ pc = "done"
           /\ frame_log = <<>>
           /\ result.kind = "Tracker"
           /\ result.name = config.tracker_name
           /\ result.tracks = <<>>
    /\ (pc \notin {"collect", "stage1"} /\ finished_tracklets = <<>>) =>
           /\ pc = "done"
           /\ link_cost_matrix = <<>>
           /\ track_calls = <<>>
           /\ result.kind = "Tracker"
           /\ result.name = config.tracker_name
           /\ result.tracks = <<>>

\* three detections made tracklets, every one of them was closed too short
\* to be finalized, and the run returned
C11_Witness ==
    /\ pc = "done"
    /\ Cardinality(InputKeys) = 3
    /\ Len(closed_tracklets) >= 2
    /\ finished_tracklets = <<>>
    /\ result.kind = "Tracker"

\* C12, as claimed: the run ends without raising, and the Tracker returned
\* holds one track for every chain that passed the min_track_length filter.
C12_RunsToCompletion ==
    pc = "done" =>
        /\ result.kind = "Tracker"
        /\ Len(result.tracks) = Len(SurvivingChains)

\* min_tracklet_length <= 0 or max_linking_gap < 0
InvalidConfig == config.min_tracklet_length <= 0 \/ config.max_linking_gap < 0

\* C13, as claimed: under an invalid configuration no frame is processed and
\* no Tracker is returned.
C13_InvalidConfigFailsFast ==
    InvalidConfig =>
        /\ frame_log = <<>>
        /\ finished_tracklets = <<>>
        /\ result.kind # "Tracker"

\* C15, as claimed: when the run ends, the Tracker holds one track for every
\* chain with at least min_track_length points and none for the others; the
\* tracks are named "Track 1", "Track 2", ... in chain order and hold the
\* points of their chains.
C15_SurvivingChainsNamedInOrder ==
    (pc = "done" /\ Len(linked_tracklets) > 0) =>
        /\ Len(result.tracks) = Len(SurvivingChains)
        /\ \A c \in 1..Len(result.tracks) :
               /\ result.tracks[c].name = <<"Track", c>>
               /\ result.tracks[c].frames = TrackPoints[c].frames
               /\ result.tracks[c].rows = TrackPoints[c].rows
               /\ result.tracks[c].columns = TrackPoints[c].columns

---------------------------------------------------------------------------
(* Stage 1: gates, recency, ordering of the stages *)

\* C19, as claimed: whatever initial_search_radius is, every pair of a
\* tracklet and a detection that an accepted assignment appends passed the
\* three gates when the frame was processed.
C19_OnlyGatedPairsExtend ==
    \A k \in 1..Len(frame_log) : frame_log[k].appended \subseteq frame_log[k].gated

\* C20: with initial_search_radius > 0, two consecutive points of any tracklet,
\* active, finalized or discarded, are at least 1 and at most 3 frames apart.
C20_ConsecutivePointsWithinRecency ==
    config.initial_search_radius > 0 =>
        \A i \in 1..Len(Tracklets) :
            \A k \in 1..(Len(Tracklets[i].frames) - 1) :
                /\ Tracklets[i].frames[k + 1] - Tracklets[i].frames[k] >= 1
                /\ Tracklets[i].frames[k + 1] - Tracklets[i].frames[k] <= RecencyBound

\* a tracklet whose last point is four frames old meets a detection at the
\* very same place, within the radius, and is not extended
C20_Witness ==
    /\ config.initial_search_radius > 0
    /\ Len(frame_log) = 2
    /\ frame_log[2].frame - frame_log[1].frame = RecencyBound + 1
    /\ frame_log[2].matching
    /\ frame_log[2].appended = {}
    /\ Len(closed_tracklets) = 1
    /\ Len(active_tracklets) = 1
    /\ closed_tracklets[1].t.positions = active_tracklets[1].positions

\* the ids of the tracklets of a list
Ids(ts) == {ts[i].id : i \in 1..Len(ts)}

\* every tracklet made so far has been closed, once
AllClosed ==
    \A id \in 1..(next_tracklet_id - 1) :
        Cardinality({k \in 1..Len(closed_tracklets) : closed_tracklets[k].t.id = id}) = 1

\* C16, as claimed: a finalized tracklet is never in the active list.
C16_FinalizedNeverActive == Ids(finished_tracklets) \cap Ids(active_tracklets) = {}

\* C16, amended: the linking stage starts only when every frame has been
\* processed and every tracklet closed; nothing of the linking stage exists
\* before; a tracklet in the finalized list is never changed or removed
\* afterwards; the active list changes only when a frame is processed, and
\* while Stage 1 runs no finalized tracklet is in it.
C16_StagesInOrder ==
    [][/\ (pc \in {"collect", "stage1"}) =>
              /\ link_cost_matrix = <<>>
              /\ linked_tracklets = <<>>
              /\ used_tracklets = {}
              /\ link_log = <<>>
       /\ (pc' \notin {"collect", "stage1"} /\ pc' # pc) =>
              (fidx' > Len(frames') /\ AllClosed')
       /\ (pc \notin {"collect", "stage1"}) =>
              (finished_tracklets' = finished_tracklets /\ AllClosed)
       /\ Len(finished_tracklets') >= Len(finished_tracklets)
       /\ \A i \in 1..Len(finished_tracklets) :
              finished_tracklets'[i] = finished_tracklets[i]
       /\ (active_tracklets' # active_tracklets) =>
              (pc = "stage1" /\ fidx <= Len(frames))
       /\ (pc = "stage1") =>
              Ids(finished_tracklets) \cap Ids(active_tracklets) = {}
      ]_vars

\* a tracklet was finalized while frames remained, two more frames were
\* processed, and the linking stage has built its costs
C16_Witness ==
    /\ pc = "link"
    /\ \E k \in 1..Len(closed_tracklets) :
           /\ closed_tracklets[k].kept
           /\ ~closed_tracklets[k].final
           /\ Last(closed_tracklets[k].t.frames) + 1 < Last(frames)
    /\ Len(frame_log) >= 3
    /\ Len(finished_tracklets) >= 2

\* the points of tracklet t are the input detections they were copied from
PointsMatchInput(t) ==
    \A k \in 1..Len(t.src) :
        /\ t.frames[k] = FrameOf(t.src[k])
        /\ t.positions[k] = <<ColumnOf(t.src[k]), RowOf(t.src[k])>>

\* the same for every tracklet made so far and for the detections grouped by
\* frame
InputIntact ==
    /\ \A i \in 1..Len(Tracklets) : PointsMatchInput(Tracklets[i])
    /\ \A i \in 1..Len(finished_tracklets) : PointsMatchInput(finished_tracklets[i])
    /\ \A f \in DOMAIN detections_by_frame :
           \A j \in 1..Len(detections_by_frame[f]) :
               /\ FrameOf(detections_by_frame[f][j].key) = f
               /\ detections_by_frame[f][j].pos =
                      <<ColumnOf(detections_by_frame[f][j].key),
                        RowOf(detections_by_frame[f][j].key)>>

\* C17: no step changes the arrays of a detector, and at every step each point
\* of each tracklet, and each position grouped by frame, still holds the
\* frame, column and row of the input detection it was copied from, however
\* many detections were appended to the tracklet since.
C17_InputUnchanged ==
    [][detectors' = detectors /\ InputIntact /\ InputIntact']_vars

\* the run is over and a finalized tracklet has three points at two places
C17_Witness ==
    /\ pc = "done"
    /\ \E i \in 1..Len(finished_tracklets) :
           /\ Len(finished_tracklets[i].positions) = 3
           /\ finished_tracklets[i].positions[1] # finished_tracklets[i].positions[2]
           /\ finished_tracklets[i].positions[3] = finished_tracklets[i].positions[1]

---------------------------------------------------------------------------
(* Two calls on the same input *)

\* C14: when run_tracklet_tracker, called a second time on the same detectors
\* and configuration with a solver that repeats its choices, has ended, it
\* has ended as the first call did: the same result (the same tracks, with the
\* same names, frames, rows and columns in the same order), the same
\* arguments handed to Track, the same finalized tracklets and the same chains.
C14_SecondRunIdentical ==
    (first_run.done /\ pc = "done") =>
        /\ result = first_run.result
        /\ track_calls = first_run.track_calls
        /\ finished_tracklets = first_run.finished_tracklets
        /\ linked_tracklets = first_run.linked_tracklets
        /\ [k \in 1..Len(frame_log) |-> frame_log[k].appended]
               = [k \in 1..Len(first_run.frame_log) |-> first_run.frame_log[k].appended]

\* the second call has ended; the solver had more than one assignment of
\* minimum cost to choose from in a frame that extended two tracklets, and
\* Track was called
C14_Witness ==
    /\ first_run.done
    /\ pc = "done"
    /\ Len(track_calls) = 1
    /\ \E k \in 1..Len(frame_log) :
           /\ Cardinality(frame_log[k].appended) = 2
           /\ Cardinality(linear_sum_assignment(frame_log[k].cost, 2, 2)) = 2

---------------------------------------------------------------------------
(* Stage 1: the active tracklets from frame to frame *)

\* C21: when a frame has been processed, the last frame of every active
\* tracklet is that frame, so that at the start of the next frame it is the
\* previously processed one; and between two consecutive points of any
\* tracklet the input has no detection.
C21_TrackletsSkipOnlyEmptyFrames ==
    /\ (pc = "stage1" /\ fidx > 1) =>
           \A i \in 1..Len(active_tracklets) :
               Last(active_tracklets[i].frames) = frames[fidx - 1]
    /\ \A i \in 1..Len(Tracklets) :
           \A k \in 1..(Len(Tracklets[i].frames) - 1) :
               \A key \in InputKeys :
                   ~(/\ Tracklets[i].frames[k] < FrameOf(key)
                     /\ FrameOf(key) < Tracklets[i].frames[k + 1])

\* a tracklet of three detections has skipped a frame twice
C21_Witness ==
    /\ Cardinality(InputKeys) = 3
    /\ \E i \in 1..Len(Tracklets) :
           /\ Len(Tracklets[i].frames) = 3
           /\ Tracklets[i].frames[2] - Tracklets[i].frames[1] >= 2
           /\ Tracklets[i].frames[3] - Tracklets[i].frames[2] >= 2

\* C22: after a frame is processed every active tracklet has its last point
\* on that frame; every detection of the frame is the last point of exactly
\* one active tracklet; a matched tracklet has been extended by its detection;
\* every unmatched detection has spawned a single-point tracklet, which is
\* active and not closed; every tracklet unmatched in the frame has left the
\* active list.
C22_ActiveMatchFrameDetections ==
    (pc = "stage1" /\ fidx > 1) =>
        LET frame == frames[fidx - 1]
            detections == detections_by_frame[frame]
            log == frame_log[fidx - 1]
        IN  /\ Len(frame_log) = fidx - 1
            /\ log.frame = frame
            /\ Len(active_tracklets) = Len(detections)
            /\ \A i \in 1..Len(active_tracklets) :
                   Last(active_tracklets[i].frames) = frame
            /\ \A j \in 1..Len(detections) :
                   Cardinality({i \in 1..Len(active_tracklets) :
                                   Last(active_tracklets[i].src) = detections[j].key}) = 1
            /\ \A p \in log.appended :
                   \E i \in 1..Len(active_tracklets) :
                       /\ active_tracklets[i].id = p[1]
                       /\ Last(active_tracklets[i].src) = p[2]
                       /\ Len(active_tracklets[i].src) >= 2
            /\ \A k \in 1..Len(log.spawned) :
                   /\ \E i \in 1..Len(active_tracklets) :
                          /\ active_tracklets[i].id = log.spawned[k]
                          /\ Len(active_tracklets[i].src) = 1
                   /\ \A c \in 1..Len(closed_tracklets) :
                          closed_tracklets[c].t.id # log.spawned[k]
            /\ \A b \in 1..Len(log.before) :
                   (\A p \in log.appended : p[1] # log.before[b]) =>
                       \A i \in 1..Len(active_tracklets) :
                           active_tracklets[i].id # log.before[b]

\* a frame of two detections met two active tracklets: one was extended, the
\* other closed, and the detection left over spawned a tracklet
C22_Witness ==
    /\ pc = "stage1"
    /\ fidx > 1
    /\ Len(frame_log[fidx - 1].before) = 2
    /\ Cardinality(frame_log[fidx - 1].appended) = 1
    /\ Len(frame_log[fidx - 1].spawned) = 1
    /\ Len(active_tracklets) = 2

\* C23: with initial_search_radius > 0, when detection D is the only one that
\* passes the gates for tracklet T and T the only tracklet for which D passes
\* them, whichever minimum-cost assignment the solver returns, T is extended
\* with D.
C23_LonePairMatched ==
    config.initial_search_radius > 0 =>
        \A k \in 1..Len(frame_log) :
            \A p \in frame_log[k].gated :
                (\A q \in frame_log[k].gated : (q[1] = p[1] \/ q[2] = p[2]) => q = p)
                    => p \in frame_log[k].appended

\* two tracklets met two detections; one pair only passed the gates, and it
\* was matched
C23_Witness ==
    /\ config.initial_search_radius > 0
    /\ \E k \in 1..Len(frame_log) :
           /\ Len(frame_log[k].before) = 2
           /\ Len(frame_log[k].cost[1]) = 2
           /\ Cardinality(frame_log[k].gated) = 1
           /\ frame_log[k].appended = frame_log[k].gated

---------------------------------------------------------------------------
(* The methods of Tracklet *)

C25_VelocityConsistency ==
    call.op = "check_velocity_consistency" =>
        LET n == Len(tracklet.positions)
            dt == call.frame - tracklet.frames[n]
            v == tracklet.velocity
            \* (detection - last) / dt - v, over the denominator dt * v.d
            cx == (call.pos[1] - tracklet.positions[n][1]) * v.d - v.x * dt
            cy == (call.pos[2] - tracklet.positions[n][2]) * v.d - v.y * dt
            den == dt * v.d
        IN  call.flag =
                (IF n < 2 THEN TRUE
                 ELSE IF dt = 0 THEN FALSE
                 ELSE cx * cx + cy * cy < call.arg * call.arg * den * den)

\* the change of velocity is exactly max_change, and the detection is refused
C25_Witness ==
    /\ call.op = "check_velocity_consistency"
    /\ Len(tracklet.positions) >= 2
    /\ call.frame > Last(tracklet.frames)
    /\ LET n == Len(tracklet.positions)
           dt == call.frame - tracklet.frames[n]
           v == tracklet.velocity
           cx == (call.pos[1] - tracklet.positions[n][1]) * v.d - v.x * dt
           cy == (call.pos[2] - tracklet.positions[n][2]) * v.d - v.y * dt
           den == dt * v.d
       IN  cx * cx + cy * cy = call.arg * call.arg * den * den
    /\ ~call.flag

\* the position (numerators over the denominator d) that the tracklet has
\* `ahead` frames after its last point, at its velocity
Ahead(ahead) ==
    LET n == Len(tracklet.positions)
        v == tracklet.velocity
    IN  [x |-> tracklet.positions[n][1] * v.d + v.x * ahead,
         y |-> tracklet.positions[n][2] * v.d + v.y * ahead, d |-> v.d]

\* C26: distance_to is the distance from the detection to last position +
\* velocity * (frame - last frame) when the velocity is defined, and to the
\* last position when it is not; predict_position and extrapolate_forward
\* return None exactly when the velocity is undefined, and otherwise the
\* position at the target frame; extrapolate_forward(0) is then the last
\* position.
C26_DistanceAndPrediction ==
    LET n == Len(tracklet.positions)
        v == tracklet.velocity
    IN  /\ call.op = "distance_to" =>
               LET target == IF v.def THEN Ahead(call.frame - tracklet.frames[n])
                             ELSE [x |-> tracklet.positions[n][1],
                                   y |-> tracklet.positions[n][2], d |-> 1]
                   ex == call.pos[1] * target.d - target.x
                   ey == call.pos[2] * target.d - target.y
               IN  call.norm.n2 * target.d * target.d
                       = (ex * ex + ey * ey) * call.norm.d * call.norm.d
        /\ call.op = "predict_position" =>
               /\ call.vec.def <=> v.def
               /\ v.def =>
                      LET target == Ahead(call.frame - tracklet.frames[n])
                      IN  /\ call.vec.x * target.d = target.x * call.vec.d
                          /\ call.vec.y * target.d = target.y * call.vec.d
        /\ call.op = "extrapolate_forward" =>
               /\ call.vec.def <=> v.def
               /\ v.def =>
                      LET target == Ahead(call.arg)
                      IN  /\ call.vec.x * target.d = target.x * call.vec.d
                          /\ call.vec.y * target.d = target.y * call.vec.d
               /\ (v.def /\ call.arg = 0) =>
                      /\ call.vec.x = tracklet.positions[n][1] * call.vec.d
                      /\ call.vec.y = tracklet.positions[n][2] * call.vec.d

\* distance_to was called on a moving tracklet with a detection that lies at
\* the predicted position, away from the last one
C26_Witness ==
    /\ call.op = "distance_to"
    /\ tracklet.velocity.def
    /\ call.norm.n2 = 0
    /\ call.pos # Last(tracklet.positions)

---------------------------------------------------------------------------
(* The linking loop *)

\* C27: every link i -> j that was made has i # j, j starting after the end
\* of i, at most max_linking_gap frames after it, i with a defined velocity,
\* and the first point of j at most linking_search_radius away from the place
\* i is extrapolated to; with max_linking_gap <= 0 no link is made.
C27_LinksAreEligible ==
    /\ \A l \in 1..Len(link_log) :
           LET ti == finished_tracklets[link_log[l].i]
               tj == finished_tracklets[link_log[l].j]
               gap == tj.frames[1] - Last(ti.frames)
               v == ti.velocity
               ex == Last(ti.positions)[1] * v.d + v.x * gap - tj.positions[1][1] * v.d
               ey == Last(ti.positions)[2] * v.d + v.y * gap - tj.positions[1][2] * v.d
               radius == config.linking_search_radius
           IN  /\ link_log[l].i # link_log[l].j
               /\ gap > 0
               /\ gap <= config.max_linking_gap
               /\ v.def
               /\ radius >= 0
               /\ ex * ex + ey * ey <= radius * radius * v.d * v.d
    /\ config.max_linking_gap <= 0 => link_log = <<>>

\* two links were made, each with a position error of exactly the radius
C27_Witness ==
    /\ pc = "unlinked"
    /\ config.linking_search_radius = 1
    /\ Len(link_log) = 2
    /\ \A l \in 1..2 :
           finished_tracklets[link_log[l].j].positions[1][1]
               = ScenarioPos + 1 + finished_tracklets[link_log[l].j].frames[1] - ScenarioEnd

\* the tracklets consumed by the links before the l-th
UsedBefore(l) == UNION {{link_log[k].i, link_log[k].j} : k \in 1..(l - 1)}

\* C28: each link was, when it was chosen, the finite entry of least cost
\* among those whose two tracklets were both unconsumed, and among the entries
\* of that cost the first in row-major order; the costs of the links never
\* decrease along the loop.
C28_GreedyMinimum ==
    /\ \A l \in 1..Len(link_log) :
           LET i == link_log[l].i
               j == link_log[l].j
               used == UsedBefore(l)
           IN  /\ i \notin used
               /\ j \notin used
               /\ ~link_cost_matrix[i][j].inf
               /\ link_cost_matrix[i][j].c = link_log[l].cost
               /\ \A a, b \in 1..Len(link_cost_matrix) :
                      (a \notin used /\ b \notin used /\ ~link_cost_matrix[a][b].inf) =>
                          /\ link_cost_matrix[a][b].c >= link_log[l].cost
                          /\ link_cost_matrix[a][b].c = link_log[l].cost =>
                                 (a > i \/ (a = i /\ b >= j))
    /\ \A l \in 1..(Len(link_log) - 1) : link_log[l].cost <= link_log[l + 1].cost

\* two links were made; the first is the cheaper one, although its entry
\* comes later in the matrix
C28_Witness ==
    /\ Len(link_log) = 2
    /\ link_log[1].cost < link_log[2].cost
    /\ link_log[1].i > link_log[2].i

\* the loop has stopped
LoopOver == pc \in {"unlinked", "assemble", "done"}

\* C29: the linking loop comes to its end; each link consumes two tracklets
\* not consumed before, so that n finalized tracklets give at most n / 2
\* links; and once the loop is over no finite entry is left whose two
\* tracklets are both unconsumed.
C29_LinkingTerminates ==
    /\ [](/\ Cardinality(used_tracklets) = 2 * Len(link_log)
          /\ used_tracklets \subseteq 1..Len(finished_tracklets)
          /\ Len(link_log) <= Len(finished_tracklets) \div 2
          /\ LoopOver =>
                 \A a, b \in 1..Len(link_cost_matrix) :
                     (a \notin used_tracklets /\ b \notin used_tracklets)
                         => link_cost_matrix[a][b].inf)
    /\ ((pc = "link") ~> LoopOver)

\* the loop is over after two links among four tracklets
C29_Witness ==
    /\ pc = "unlinked"
    /\ Len(finished_tracklets) = 4
    /\ Len(link_log) = 2

\* C30: the points of every chain, concatenated in chain order, have strictly
\* increasing frames, so that sorting them by frame changes nothing; the
\* arrays handed to Track, and those of every track returned, have equal
\* lengths and strictly increasing frames.
C30_ChainFramesIncrease ==
    /\ pc \in {"assemble", "done"} =>
           \A c \in 1..Len(linked_tracklets) :
               LET points == Concat(finished_tracklets, linked_tracklets[c])
               IN  /\ \A k \in 1..(Len(points) - 1) :
                          points[k].frame < points[k + 1].frame
                   /\ SortByFrame(points) = points
    /\ \A c \in 1..Len(track_calls) :
           /\ Len(track_calls[c].rows) = Len(track_calls[c].frames)
           /\ Len(track_calls[c].columns) = Len(track_calls[c].frames)
           /\ \A k \in 1..(Len(track_calls[c].frames) - 1) :
                  track_calls[c].frames[k] < track_calls[c].frames[k + 1]
    /\ \A c \in 1..Len(result.tracks) :
           /\ Len(result.tracks[c].rows) = Len(result.tracks[c].frames)
           /\ Len(result.tracks[c].columns) = Len(result.tracks[c].frames)
           /\ \A k \in 1..(Len(result.tracks[c].frames) - 1) :
                  result.tracks[c].frames[k] < result.tracks[c].frames[k + 1]

\* Track was called with the three points of a chain of two tracklets
C30_Witness ==
    /\ Len(track_calls) = 1
    /\ Len(linked_tracklets[1]) = 2
    /\ Len(track_calls[1].frames) = 3

===========================================================================
